---- MODULE Spec2Model ----
(***************************************************************************)
(* VoiceTrace: the audio processing pipeline (process_audio.py), the local *)
(* text-generation client with its retry loop and the routing policy       *)
(* (llm.py), the redaction codec (anonymization.py), the manual batch      *)
(* (manual.py), the watch handler (watch.py) and the files they read and   *)
(* write, as state machines over one set of variables.                     *)
(*                                                                         *)
(* Spec is the pipeline: one process invocation in progress at a time,     *)
(* every stage of process one action; a stage that calls a collaborator    *)
(* draws the collaborator's outcome (a result, or an exception)            *)
(* nondeterministically.  SpecLLM, SpecRouting, SpecCodec and SpecArchive  *)
(* use one component directly; SpecBatch and SpecWatch are the two callers *)
(* of process.                                                             *)
(***************************************************************************)
EXTENDS Integers, Sequences, FiniteSets, TLC

\* ------------------------------------------------------------ bounds
\* Process invocations explored.
MaxInvocations == 2
\* The clock, in whole seconds (strftime('%Y%m%d-%H%M%S') granularity).
MaxClock == 1
\* Audio files ever created in the inbox.
MaxFiles == 2
\* LOCAL_LLM_RETRIES is drawn from -1 .. MaxRetries.
MaxRetries == 2
\* on_created callbacks that can overlap.
MaxCallbacks == 2
\* File-creation notifications delivered to the watch handler.
MaxEvents == 3
\* Pieces an input text of the redaction codec is put together from.
MaxPieces == 2
\* Ordinary words at the start of a text given to the routing policy.
MaxWords == 61
\* Recordings archived by _archive_audio used on its own.
MaxArchives == 4

\* ------------------------------------------------------------ text
None == "None"

Space == " "

RECURSIVE LStrip(_)
LStrip(s) == IF s # <<>> /\ Head(s) = Space THEN LStrip(Tail(s)) ELSE s

RECURSIVE RStrip(_)
RStrip(s) ==
    IF s # <<>> /\ s[Len(s)] = Space THEN RStrip(SubSeq(s, 1, Len(s) - 1)) ELSE s

\* str.strip(): leading and trailing whitespace removed.
Strip(s) == RStrip(LStrip(s))

\* Texts a backend can put in a content field: sequences of tokens, " " being
\* whitespace, "w" an ordinary word and "plan" one of the routing phrases.
Contents == { <<>>, <<Space>>, <<Space, "w">>, <<"plan", Space>> }

\* What the speech engine can recognise (already joined and stripped).
Transcripts == { <<>>, <<"w">> }

SkippedText == <<"_Skipped due to --clean-only mode._">>

\* -------------------------------------------------- session identity
AllowedChar(c) == c \in {"m", "M", "-"}

LowerChar(c) == IF c = "M" THEN "m" ELSE c

RECURSIVE DropDisallowed(_)
DropDisallowed(s) ==
    IF s # <<>> /\ ~AllowedChar(Head(s)) THEN DropDisallowed(Tail(s)) ELSE s

\* re.sub(r"[^a-zA-Z0-9._-]+", "-", stem): each run of other characters
\* becomes one "-".
RECURSIVE SubDisallowed(_)
SubDisallowed(s) ==
    IF s = <<>> THEN <<>>
    ELSE IF AllowedChar(Head(s)) THEN <<Head(s)>> \o SubDisallowed(Tail(s))
    ELSE <<"-">> \o SubDisallowed(DropDisallowed(Tail(s)))

RECURSIVE LStripDash(_)
LStripDash(s) == IF s # <<>> /\ Head(s) = "-" THEN LStripDash(Tail(s)) ELSE s

RECURSIVE RStripDash(_)
RStripDash(s) ==
    IF s # <<>> /\ s[Len(s)] = "-" THEN RStripDash(SubSeq(s, 1, Len(s) - 1)) ELSE s

LowerSeq(s) == [i \in 1..Len(s) |-> LowerChar(s[i])]

SessionBase(stem) ==
    LET t == LowerSeq(RStripDash(LStripDash(SubDisallowed(stem))))
    IN  IF t = <<>> THEN <<"audio">> ELSE t

\* f"{now.strftime('%Y%m%d-%H%M%S')}-{base}"
MakeSessionId(stem, now_) == <<now_, SessionBase(stem)>>

\* The audio file names (stems; the extension is fixed) used as inputs.
AudioStems == { <<"M", Space>> }

\* ------------------------------------------------------------ errors
\* An exception, as str(exc) shows it: its type, and for the local client's
\* terminal error the operation, the attempt count and the last failure.
Err(type) == [type |-> type, op |-> "", attempts |-> 0, last |-> ""]

NoError == Err("")

\* ------------------------------------------------------------ state
VARIABLES
    now,          \* the clock, in seconds
    retries,      \* Config.LOCAL_LLM_RETRIES
    useClaude,    \* Config.USE_CLAUDE_FOR_COMPLEX
    hasKey,       \* LLMProcessor.anthropic_client is not None
    llmChecked,   \* LLMProcessor._local_llm_checked
    call,         \* the _local_chat_completion call in progress
    inbox,        \* audio/<stem>: the file's content id, 0 when absent
    fileCount,    \* audio files created so far
    processed,    \* audio/processed/: [stem, suffix, content]
    sessionDirs,  \* sessions/: the directories that exist
    sessionFiles, \* sessions/<id>/<file>: [sid, file, by, data]
    rawDir,       \* raw/: [ts, stem, by]
    captureLog,   \* capture.md, one element per appended block
    metricsLog,   \* logs/metrics.jsonl, one element per line
    eventLog,     \* logs/<month>-processing.jsonl, one element per line
    inv,          \* the locals of the current (or last) process invocation
    invCount,     \* process invocations so far
    started,      \* history: [id, stem, sid, source] of each invocation past mkdir
    batch,        \* manual.py main in --all mode: its listing and position
    processing,   \* AudioFileHandler.processing, the in-flight set
    notified,     \* file-creation notifications delivered so far
    cb,           \* the on_created callbacks: where each one is, and its path
    runs,         \* history: the process invocations the callbacks made
    codec,        \* one use of the redaction codec: its input and results
    other         \* a second process' pipeline state, while it is not running

vars == <<now, retries, useClaude, hasKey, llmChecked, call, inbox, fileCount,
          processed, sessionDirs, sessionFiles, rawDir, captureLog, metricsLog,
          eventLog, inv, invCount, started, batch, processing, notified, cb, runs,
          codec, other>>

\* What surrounds the pipeline: the callers of process (the manual batch and
\* the watch handler), the redaction codec used on its own, and a second
\* process using the same vault.
triggers == <<batch, processing, notified, cb, runs, codec, other>>

config == <<retries, useClaude, hasKey>>

files == <<inbox, fileCount, processed, sessionDirs, sessionFiles, rawDir,
           captureLog, metricsLog, eventLog>>

\* The state of the pipeline, which its callers and the codec leave alone
\* between the calls they make.
pipelineVars == <<now, config, llmChecked, call, files, inv, invCount, started>>

\* ------------------------------------------- local text-generation client
\* probe: what _check_local_llm did in this call ("none" before it ran,
\* "skipped" when the flag was set, else the outcome of GET /models).
IdleCall ==
    [step |-> "idle", op |-> "", attempts |-> 0, attempt |-> 0, sent |-> 0,
     probe |-> "none",
     lastResp |-> [kind |-> "", content |-> <<>>], last_error |-> "",
     outcome |-> "pending", content |-> <<>>, error |-> NoError]

\* What one POST to /chat/completions can come back with: a transport or HTTP
\* status failure or a body that is not JSON (requests.RequestException), or a
\* JSON payload of one of these shapes.
ResponseKinds ==
    {"request_error", "no_choices_key", "empty_choices", "no_message",
     "no_content", "null_content", "content"}

Responses ==
    { [kind |-> k, content |-> <<>>] : k \in ResponseKinds \ {"content"} }
    \cup { [kind |-> "content", content |-> c] : c \in Contents }

EmptyContentError == "ValueError: Local LLM returned empty content"

\* Lines 63-73 on one response: the content returned, an exception the loop
\* catches (RequestException, ValueError), or one it does not.
AttemptOutcome(resp) ==
    CASE resp.kind = "request_error" ->
            [type |-> "caught", error |-> "RequestException", content |-> <<>>]
      [] resp.kind = "empty_choices" ->
            [type |-> "escape", error |-> "IndexError", content |-> <<>>]
      [] resp.kind = "null_content" ->
            [type |-> "escape", error |-> "AttributeError", content |-> <<>>]
      [] resp.kind \in {"no_choices_key", "no_message", "no_content"} ->
            [type |-> "caught", error |-> EmptyContentError, content |-> <<>>]
      [] OTHER ->
            IF Strip(resp.content) = <<>>
            THEN [type |-> "caught", error |-> EmptyContentError, content |-> <<>>]
            ELSE [type |-> "return", error |-> "", content |-> Strip(resp.content)]

\* int(os.getenv("LOCAL_LLM_RETRIES", "2"))
DefaultRetries == 2

\* Mutant of Attempts: the retries are taken for the attempts.
AttemptsNoFirst(r) == IF r > 1 THEN r ELSE 1

\* attempts = max(1, Config.LOCAL_LLM_RETRIES + 1)
Attempts(r) == IF r + 1 > 1 THEN r + 1 ELSE 1

\* _local_chat_completion is entered: line 36, then _check_local_llm is next.
StartCall(op) ==
    [IdleCall EXCEPT !.step = "check", !.op = op, !.attempts = Attempts(retries)]

\* Mutant of LlmCheck: the flag is not consulted, every call probes.
LlmCheckAlways ==
    /\ call.step = "check"
    /\ \E ok \in BOOLEAN :
          IF ok
          THEN /\ llmChecked' = TRUE
               /\ call' = [call EXCEPT !.step = "loop", !.attempt = 1,
                                       !.probe = "ok"]
          ELSE /\ UNCHANGED llmChecked
               /\ call' = [call EXCEPT !.step = "done", !.outcome = "raised",
                                       !.probe = "failed",
                                       !.error = Err("RequestException")]
    /\ UNCHANGED <<now, config, triggers, files, inv, invCount, started>>

\* _check_local_llm: nothing when the flag is set, else one GET /models whose
\* failure propagates to the caller of _local_chat_completion.
LlmCheck ==
    /\ call.step = "check"
    /\ IF llmChecked
       THEN /\ call' = [call EXCEPT !.step = "loop", !.attempt = 1,
                                    !.probe = "skipped"]
            /\ UNCHANGED llmChecked
       ELSE \E ok \in BOOLEAN :
               IF ok
               THEN /\ llmChecked' = TRUE
                    /\ call' = [call EXCEPT !.step = "loop", !.attempt = 1,
                                            !.probe = "ok"]
               ELSE /\ UNCHANGED llmChecked
                    /\ call' = [call EXCEPT !.step = "done", !.outcome = "raised",
                                            !.probe = "failed",
                                            !.error = Err("RequestException")]
    /\ UNCHANGED <<now, config, triggers, files, inv, invCount, started>>

\* The state of the call after the loop body has handled one response.
AfterAttempt(c, resp) ==
    LET o == AttemptOutcome(resp)
        d == [c EXCEPT !.sent = c.sent + 1, !.lastResp = resp]
    IN  CASE o.type = "return" ->
               [d EXCEPT !.step = "done", !.outcome = "returned",
                         !.content = o.content]
          [] o.type = "escape" ->
               [d EXCEPT !.step = "done", !.outcome = "raised",
                         !.error = Err(o.error)]
          [] OTHER ->
               IF c.attempt >= c.attempts
               THEN [d EXCEPT !.step = "done", !.outcome = "raised",
                              !.last_error = o.error,
                              !.error = [type |-> "RuntimeError", op |-> c.op,
                                         attempts |-> c.attempts, last |-> o.error]]
               ELSE [d EXCEPT !.last_error = o.error, !.attempt = c.attempt + 1]

\* One iteration of the retry loop: the request, and what the body does with
\* the response (the sleep before the next attempt changes no state).
LlmAttempt ==
    /\ call.step = "loop"
    /\ \E resp \in Responses : call' = AfterAttempt(call, resp)
    /\ UNCHANGED <<now, config, triggers, llmChecked, files, inv, invCount, started>>

\* ------------------------------------------------- routing (llm.py)
\* len(text.split()): the maximal runs of non-whitespace tokens.
WordCount(text) ==
    Cardinality({ i \in 1..Len(text) :
                    text[i] # Space /\ (i = 1 \/ text[i - 1] = Space) })

\* str.lower() on the words used here.
LowerWord(w) ==
    CASE w = "Plan" -> "plan"
      [] w = "Planning" -> "planning"
      [] w = "Break" -> "break"
      [] OTHER -> w

\* any(p in lowered for p in phrases), a substring test: the one-word phrase
\* "plan" inside a word, and the two-word phrase "break down" (one blank
\* between its words), stand for the list of phrases.
HasPhrase(text) ==
    \E i \in 1..Len(text) :
        \/ LowerWord(text[i]) \in {"plan", "planning"}
        \/ /\ i + 2 <= Len(text)
           /\ LowerWord(text[i]) = "break"
           /\ text[i + 1] = Space
           /\ LowerWord(text[i + 2]) = "down"

WordThreshold == 60

\* Mutant of ShouldUseClaude: a text of exactly the threshold is routed too.
ShouldUseClaudeAtLeast(text) ==
    IF ~useClaude \/ ~hasKey
    THEN FALSE
    ELSE WordCount(text) >= WordThreshold \/ HasPhrase(text)

ShouldUseClaude(text) ==
    IF ~useClaude \/ ~hasKey
    THEN FALSE
    ELSE WordCount(text) > WordThreshold \/ HasPhrase(text)

\* ------------------------------------------------- the pipeline's data
NoDest == <<>>

\* The metrics dict of process, lines 33-46.
NewMetrics(id, stem, raw, clean, sid) ==
    [by |-> id, session_id |-> sid, audio_file |-> stem, raw_only |-> raw,
     clean_only |-> clean, status |-> "started", durs |-> {},
     transcription_method |-> None, breakdown_model |-> None,
     error |-> NoError, archived |-> NoDest]

NoSession == <<-1, <<>>>>

IdleInv ==
    [id |-> 0, stem |-> <<>>, raw_only |-> FALSE, clean_only |-> FALSE,
     pc |-> "idle", metrics |-> NewMetrics(0, <<>>, FALSE, FALSE, NoSession),
     raw_text |-> <<>>, clean_text |-> <<>>, breakdown |-> <<>>,
     model_used |-> None, failedAt |-> None, ran |-> <<>>, metaWrites |-> 0,
     source |-> 0, exc |-> NoError, outcome |-> "none", raised |-> NoError,
     dest |-> NoDest]

\* What a process running the pipeline holds of its own: the frame of its
\* process call and its LLMProcessor (process_audio.py line 20); the vault
\* and the clock are shared.
IdleFrame == [inv |-> IdleInv, call |-> IdleCall, llmChecked |-> FALSE]

\* open(path, "w"): the file is created or its content replaced.
WriteFile(fs, sid, file, by, text) ==
    { f \in fs : ~(f.sid = sid /\ f.file = file) }
    \cup { [sid |-> sid, file |-> file, by |-> by, text |-> text] }

\* Mutant of Fail: the handler records the error but leaves the status alone.
FailKeepsStatus(i, step, err) ==
    [i EXCEPT !.pc = "h_meta", !.failedAt = step, !.ran = Append(@, step),
              !.exc = err, !.metrics.error = err,
              !.metrics.durs = @ \cup {"total"}]

\* Step `step` of the try block raised `err`: the except handler's first three
\* statements, lines 139-142.
Fail(i, step, err) ==
    [i EXCEPT !.pc = "h_meta", !.failedAt = step, !.ran = Append(@, step),
              !.exc = err,
              !.metrics.status = "failed", !.metrics.error = err,
              !.metrics.durs = @ \cup {"total"}]

\* A step of the try block that completed: the next step is `next`.
Ran(i, step, next) == [i EXCEPT !.pc = next, !.ran = Append(@, step)]

\* ------------------------------------------------- environment
Tick ==
    /\ now < MaxClock
    /\ now' = now + 1
    /\ UNCHANGED <<config, triggers, llmChecked, call, files, inv, invCount, started>>

\* A recording lands in the inbox.
Arrive(stem) ==
    /\ inbox[stem] = 0
    /\ fileCount < MaxFiles
    /\ fileCount' = fileCount + 1
    /\ inbox' = [inbox EXCEPT ![stem] = fileCount + 1]
    /\ UNCHANGED <<now, config, triggers, llmChecked, call, processed, sessionDirs,
                   sessionFiles, rawDir, captureLog, metricsLog, eventLog,
                   inv, invCount, started>>

\* ------------------------------------------------- process, lines 22-146
\* Mutant of FlagConflict: the check never fires.
FlagConflictNever(raw, clean) == FALSE

\* Line 25.
FlagConflict(raw, clean) == raw /\ clean

\* process is called: the flag check, the session id and directory, the
\* metrics dict (lines 25-46).  mkdir is outside the try block.
ProcessCall(stem, raw, clean) ==
    /\ inv.pc \in {"idle", "done"}
    /\ call.step = "idle"
    /\ invCount < MaxInvocations
    /\ invCount' = invCount + 1
    /\ LET id == invCount + 1
           sid == MakeSessionId(stem, now)
           fresh == [IdleInv EXCEPT !.id = id, !.stem = stem, !.raw_only = raw,
                                    !.clean_only = clean, !.source = inbox[stem]]
       IN  IF FlagConflict(raw, clean)
           THEN /\ inv' = [fresh EXCEPT !.pc = "done", !.outcome = "raised",
                                        !.raised = Err("ValueError: flags")]
                /\ UNCHANGED <<sessionDirs, started>>
           ELSE \E ok \in BOOLEAN :
                   IF ok
                   THEN /\ sessionDirs' = sessionDirs \cup {sid}
                        /\ started' = Append(started,
                                             [id |-> id, stem |-> stem, sid |-> sid,
                                              source |-> inbox[stem]])
                        /\ inv' = [fresh EXCEPT
                                     !.pc = "transcribe",
                                     !.outcome = "running",
                                     !.metrics = NewMetrics(id, stem, raw, clean, sid)]
                   ELSE /\ UNCHANGED <<sessionDirs, started>>
                        /\ inv' = [fresh EXCEPT !.pc = "done", !.outcome = "raised",
                                                !.raised = Err("OSError: mkdir")]
    /\ UNCHANGED <<now, config, llmChecked, call, inbox, fileCount, processed,
                   sessionFiles, rawDir, captureLog, metricsLog, eventLog>>

\* Lines 55-60 and transcription.py: the engine raises (always when the file
\* is missing), or recognises a text; an empty text is a ValueError.
Transcribe ==
    /\ inv.pc = "transcribe"
    /\ \/ inv' = Fail(inv, "transcribe", Err("engine error"))
       \/ /\ inbox[inv.stem] # 0
          /\ \E text \in Transcripts :
                inv' = IF text = <<>>
                       THEN Fail(inv, "transcribe",
                                 Err("ValueError: Transcription returned empty text"))
                       ELSE [Ran(inv, "transcribe", "save_raw") EXCEPT
                               !.raw_text = text,
                               !.metrics.durs = @ \cup {"transcription"},
                               !.metrics.transcription_method = "whisper_local"]
    /\ UNCHANGED <<now, config, triggers, llmChecked, call, files, invCount, started>>

\* Mutant of SaveRaw: the raw-only branch is not taken.
SaveRawNoShortCircuit ==
    /\ inv.pc = "save_raw"
    /\ inv' = Ran(inv, "save_raw", "cleanup")
    /\ rawDir' = { f \in rawDir : ~(f.ts = now /\ f.stem = inv.stem) }
                  \cup { [ts |-> now, stem |-> inv.stem, by |-> inv.id] }
    /\ sessionFiles' = WriteFile(sessionFiles, inv.metrics.session_id,
                                 "raw_transcript.txt", inv.id, inv.raw_text)
    /\ UNCHANGED <<now, config, triggers, llmChecked, call, inbox, fileCount, processed,
                   sessionDirs, captureLog, metricsLog, eventLog, invCount, started>>

\* _save_raw_transcript, lines 62-66 and 179-186: raw/<ts>-<stem>.txt, then
\* sessions/<id>/raw_transcript.txt; either write may raise.
SaveRaw ==
    /\ inv.pc = "save_raw"
    /\ LET dated == { f \in rawDir : ~(f.ts = now /\ f.stem = inv.stem) }
                    \cup { [ts |-> now, stem |-> inv.stem, by |-> inv.id] }
       IN  \/ /\ inv' = Fail(inv, "save_raw", Err("OSError: raw"))
              /\ UNCHANGED <<rawDir, sessionFiles>>
           \/ /\ inv' = Fail(inv, "save_raw", Err("OSError: raw"))
              /\ rawDir' = dated
              /\ UNCHANGED sessionFiles
           \/ /\ inv' = Ran(inv, "save_raw",
                            IF inv.raw_only THEN "archive" ELSE "cleanup")
              /\ rawDir' = dated
              /\ sessionFiles' = WriteFile(sessionFiles, inv.metrics.session_id,
                                           "raw_transcript.txt", inv.id, inv.raw_text)
    /\ UNCHANGED <<now, config, triggers, llmChecked, call, inbox, fileCount, processed,
                   sessionDirs, captureLog, metricsLog, eventLog, invCount, started>>

\* Line 83: cleanup_transcription enters _local_chat_completion.
CleanupCall ==
    /\ inv.pc = "cleanup"
    /\ call.step = "idle"
    /\ call' = StartCall("cleanup")
    /\ inv' = [inv EXCEPT !.ran = Append(@, "cleanup")]
    /\ UNCHANGED <<now, config, triggers, llmChecked, files, invCount, started>>

\* Mutant of CleanupReturn: the cleanup duration is recorded on failure too.
CleanupReturnTimed ==
    /\ inv.pc = "cleanup"
    /\ call.step = "done"
    /\ call' = IdleCall
    /\ inv' = IF call.outcome = "returned"
              THEN [inv EXCEPT !.pc = "write_clean",
                               !.clean_text = call.content,
                               !.metrics.durs = @ \cup {"cleanup"}]
              ELSE [Fail(inv, "cleanup", call.error) EXCEPT
                      !.ran = inv.ran, !.metrics.durs = @ \cup {"cleanup"}]
    /\ UNCHANGED <<now, config, triggers, llmChecked, files, invCount, started>>

\* Lines 83-89: the call returned (the cleaned text and its metrics) or raised.
CleanupReturn ==
    /\ inv.pc = "cleanup"
    /\ call.step = "done"
    /\ call' = IdleCall
    /\ inv' = IF call.outcome = "returned"
              THEN [inv EXCEPT !.pc = "write_clean",
                               !.clean_text = call.content,
                               !.metrics.durs = @ \cup {"cleanup"}]
              ELSE [Fail(inv, "cleanup", call.error) EXCEPT !.ran = inv.ran]
    /\ UNCHANGED <<now, config, triggers, llmChecked, files, invCount, started>>

\* Mutant of WriteClean: clean-only mode is ignored.
WriteCleanThenBreakdown ==
    /\ inv.pc = "write_clean"
    /\ sessionFiles' = WriteFile(sessionFiles, inv.metrics.session_id,
                                 "cleaned_transcript.txt", inv.id, inv.clean_text)
    /\ inv' = Ran(inv, "write_clean", "breakdown")
    /\ UNCHANGED <<now, config, triggers, llmChecked, call, inbox, fileCount, processed,
                   sessionDirs, rawDir, captureLog, metricsLog, eventLog,
                   invCount, started>>

\* Lines 90-98: cleaned_transcript.txt; then, in clean-only mode, the
\* placeholder breakdown and the sentinel label.
WriteClean ==
    /\ inv.pc = "write_clean"
    /\ \/ /\ inv' = Fail(inv, "write_clean", Err("OSError: clean"))
          /\ UNCHANGED sessionFiles
       \/ /\ sessionFiles' = WriteFile(sessionFiles, inv.metrics.session_id,
                                       "cleaned_transcript.txt", inv.id, inv.clean_text)
          /\ inv' = IF inv.clean_only
                    THEN [Ran(inv, "write_clean", "capture") EXCEPT
                            !.model_used = "skipped_clean_only",
                            !.breakdown = SkippedText,
                            !.metrics.breakdown_model = "skipped_clean_only"]
                    ELSE Ran(inv, "write_clean", "breakdown")
    /\ UNCHANGED <<now, config, triggers, llmChecked, call, inbox, fileCount, processed,
                   sessionDirs, rawDir, captureLog, metricsLog, eventLog, invCount, started>>

\* Lines 102 and 175-181: breakdown_tasks asks the routing policy and enters
\* the backend it names.
BreakdownRoute ==
    /\ inv.pc = "breakdown"
    /\ call.step = "idle"
    /\ IF ShouldUseClaude(inv.clean_text)
       THEN /\ inv' = [inv EXCEPT !.pc = "claude", !.ran = Append(@, "breakdown")]
            /\ UNCHANGED call
       ELSE /\ inv' = [inv EXCEPT !.pc = "local_breakdown",
                                  !.ran = Append(@, "breakdown")]
            /\ call' = StartCall("task breakdown")
    /\ UNCHANGED <<now, config, triggers, llmChecked, files, invCount, started>>

\* Mutant of BrokenDown: the breakdown is not timed.
BrokenDownUntimed(i, text, model) ==
    [i EXCEPT !.pc = "write_tasks", !.breakdown = text, !.model_used = model,
              !.metrics.breakdown_model = model]

\* What follows a breakdown that returned `text` from backend `model`,
\* lines 103-106.
BrokenDown(i, text, model) ==
    [i EXCEPT !.pc = "write_tasks", !.breakdown = text, !.model_used = model,
              !.metrics.durs = @ \cup {"breakdown"},
              !.metrics.breakdown_model = model]

\* breakdown_with_claude, lines 131-173: the API raises, or the joined and
\* stripped text blocks are the result; an empty result is a ValueError.  (The
\* texts here hold no sensitive term: the redaction round trip leaves them.)
ClaudeBreakdown ==
    /\ inv.pc = "claude"
    /\ \/ inv' = [Fail(inv, "breakdown", Err("anthropic.APIError")) EXCEPT
                    !.ran = inv.ran]
       \/ \E c \in Contents :
             inv' = IF Strip(c) = <<>>
                    THEN [Fail(inv, "breakdown",
                               Err("ValueError: Claude breakdown returned empty text"))
                            EXCEPT !.ran = inv.ran]
                    ELSE BrokenDown(inv, Strip(c), "claude")
    /\ UNCHANGED <<now, config, triggers, llmChecked, call, files, invCount, started>>

\* breakdown_with_local_llm returned or raised.
LocalBreakdownReturn ==
    /\ inv.pc = "local_breakdown"
    /\ call.step = "done"
    /\ call' = IdleCall
    /\ inv' = IF call.outcome = "returned"
              THEN BrokenDown(inv, call.content, "local_llm")
              ELSE [Fail(inv, "breakdown", call.error) EXCEPT !.ran = inv.ran]
    /\ UNCHANGED <<now, config, triggers, llmChecked, files, invCount, started>>

\* Lines 107-109: tasks_breakdown.md.
WriteTasks ==
    /\ inv.pc = "write_tasks"
    /\ \/ /\ inv' = Fail(inv, "write_tasks", Err("OSError: tasks"))
          /\ UNCHANGED sessionFiles
       \/ /\ sessionFiles' = WriteFile(sessionFiles, inv.metrics.session_id,
                                       "tasks_breakdown.md", inv.id, inv.breakdown)
          /\ inv' = Ran(inv, "write_tasks", "capture")
    /\ UNCHANGED <<now, config, triggers, llmChecked, call, inbox, fileCount, processed,
                   sessionDirs, rawDir, captureLog, metricsLog, eventLog, invCount, started>>

\* _append_capture, lines 111-126 and 148-177.
CaptureEntry(i) ==
    [by |-> i.id, audio |-> i.stem,
     transcription |-> i.metrics.transcription_method,
     breakdown_model |-> i.model_used, raw |-> i.raw_text,
     cleaned |-> i.clean_text, tasks |-> i.breakdown]

Capture ==
    /\ inv.pc = "capture"
    /\ \/ /\ inv' = Fail(inv, "capture", Err("OSError: capture"))
          /\ UNCHANGED captureLog
       \/ /\ captureLog' = Append(captureLog, CaptureEntry(inv))
          /\ inv' = [Ran(inv, "capture", "archive") EXCEPT
                       !.metrics.durs = @ \cup {"capture_write"}]
    /\ UNCHANGED <<now, config, triggers, llmChecked, call, inbox, fileCount, processed,
                   sessionDirs, sessionFiles, rawDir, metricsLog, eventLog, invCount, started>>

\* _archive_audio, lines 188-194: processed/<name>, or <stem>-<timestamp> when
\* that exists.  suffix -1 is the plain name.
ArchiveDest(stem) ==
    IF \E f \in processed : f.stem = stem /\ f.suffix = -1
    THEN <<stem, now>>
    ELSE <<stem, -1>>

\* shutil.move onto `dest`: a file already there is replaced.
MoveInto(store, dest, content) ==
    { f \in store : ~(f.stem = dest[1] /\ f.suffix = dest[2]) }
    \cup { [stem |-> dest[1], suffix |-> dest[2], content |-> content] }

\* Lines 70-74 and 128-131: the move raises (always when the source is gone),
\* or the file is archived and the run is marked a success.
Archive ==
    /\ inv.pc = "archive"
    /\ \/ /\ inv' = Fail(inv, "archive", Err("OSError: move"))
          /\ UNCHANGED <<inbox, processed>>
       \/ /\ inbox[inv.stem] # 0
          /\ LET dest == ArchiveDest(inv.stem)
             IN  /\ processed' = MoveInto(processed, dest, inbox[inv.stem])
                 /\ inbox' = [inbox EXCEPT ![inv.stem] = 0]
                 /\ inv' = [Ran(inv, "archive", "write_meta") EXCEPT
                              !.metrics.archived = dest,
                              !.metrics.breakdown_model =
                                  IF inv.raw_only THEN "raw_only" ELSE @,
                              !.metrics.status = "success",
                              !.metrics.durs = @ \cup {"total"}]
    /\ UNCHANGED <<now, config, triggers, llmChecked, call, fileCount, sessionDirs,
                   sessionFiles, rawDir, captureLog, metricsLog, eventLog, invCount, started>>

\* _archive_audio as two processes see it.  Line 190, destination.exists():
\* the name to move to is chosen from what the processed store holds now.
ArchiveCheck ==
    /\ inv.pc = "archive"
    /\ inv' = [inv EXCEPT !.pc = "archive_move", !.dest = ArchiveDest(inv.stem)]
    /\ UNCHANGED <<now, config, triggers, llmChecked, call, files, invCount, started>>

\* Mutant of ArchiveMove: the move succeeds although the source is gone.
ArchiveMoveNoSource ==
    /\ inv.pc = "archive_move"
    /\ processed' = MoveInto(processed, inv.dest, inv.source)
    /\ inbox' = [inbox EXCEPT ![inv.stem] = 0]
    /\ inv' = [Ran(inv, "archive", "write_meta") EXCEPT
                 !.metrics.archived = inv.dest,
                 !.metrics.status = "success",
                 !.metrics.durs = @ \cup {"total"}]
    /\ UNCHANGED <<now, config, triggers, llmChecked, call, fileCount, sessionDirs,
                   sessionFiles, rawDir, captureLog, metricsLog, eventLog, invCount, started>>

\* Line 193, shutil.move onto the name chosen at line 190: the rename raises
\* when the source is gone (and leaves the destination as it is), or puts
\* the file at the destination, replacing what is there; then lines 129-131.
ArchiveMove ==
    /\ inv.pc = "archive_move"
    /\ \/ /\ inv' = Fail(inv, "archive", Err("OSError: move"))
          /\ UNCHANGED <<inbox, processed>>
       \/ /\ inbox[inv.stem] # 0
          /\ processed' = MoveInto(processed, inv.dest, inbox[inv.stem])
          /\ inbox' = [inbox EXCEPT ![inv.stem] = 0]
          /\ inv' = [Ran(inv, "archive", "write_meta") EXCEPT
                       !.metrics.archived = inv.dest,
                       !.metrics.breakdown_model =
                           IF inv.raw_only THEN "raw_only" ELSE @,
                       !.metrics.status = "success",
                       !.metrics.durs = @ \cup {"total"}]
    /\ UNCHANGED <<now, config, triggers, llmChecked, call, fileCount, sessionDirs,
                   sessionFiles, rawDir, captureLog, metricsLog, eventLog, invCount, started>>

\* _write_session_metadata, lines 211-213: session_meta.json holds the dict.
MetaWritten(i) ==
    WriteFile(sessionFiles, i.metrics.session_id, "session_meta.json", i.id,
              <<i.metrics.status>>)

\* Lines 75 and 133.
WriteMeta ==
    /\ inv.pc = "write_meta"
    /\ \/ /\ inv' = Fail(inv, "write_meta", Err("OSError: meta"))
          /\ UNCHANGED sessionFiles
       \/ /\ sessionFiles' = MetaWritten(inv)
          /\ inv' = [Ran(inv, "write_meta", "append_metrics") EXCEPT
                       !.metaWrites = @ + 1]
    /\ UNCHANGED <<now, config, triggers, llmChecked, call, inbox, fileCount, processed,
                   sessionDirs, rawDir, captureLog, metricsLog, eventLog, invCount, started>>

\* Lines 76 and 134, _append_metrics lines 207-209.
AppendMetrics ==
    /\ inv.pc = "append_metrics"
    /\ \/ /\ inv' = Fail(inv, "append_metrics", Err("OSError: metrics"))
          /\ UNCHANGED metricsLog
       \/ /\ metricsLog' = Append(metricsLog, inv.metrics)
          /\ inv' = Ran(inv, "append_metrics", "log_event")
    /\ UNCHANGED <<now, config, triggers, llmChecked, call, inbox, fileCount, processed,
                   sessionDirs, sessionFiles, rawDir, captureLog, eventLog, invCount, started>>

\* Lines 77-79 and 135-138, _log_event lines 196-205; then process returns True.
LogEvent ==
    /\ inv.pc = "log_event"
    /\ \/ /\ inv' = Fail(inv, "log_event", Err("OSError: event log"))
          /\ UNCHANGED eventLog
       \/ /\ eventLog' = Append(eventLog,
                [by |-> inv.id, audio_file |-> inv.stem,
                 transcription_method |-> inv.metrics.transcription_method,
                 breakdown_model |->
                     IF inv.raw_only THEN "raw_only" ELSE inv.model_used])
          /\ inv' = [Ran(inv, "log_event", "done") EXCEPT
                       !.outcome = "returned_true"]
    /\ UNCHANGED <<now, config, triggers, llmChecked, call, inbox, fileCount, processed,
                   sessionDirs, sessionFiles, rawDir, captureLog, metricsLog,
                   invCount, started>>

\* Line 143, in the except handler: an error here leaves process.
HandlerMeta ==
    /\ inv.pc = "h_meta"
    /\ \/ /\ inv' = [inv EXCEPT !.pc = "done", !.outcome = "raised",
                                !.raised = Err("OSError: meta")]
          /\ UNCHANGED sessionFiles
       \/ /\ sessionFiles' = MetaWritten(inv)
          /\ inv' = [inv EXCEPT !.pc = "h_metrics", !.metaWrites = @ + 1]
    /\ UNCHANGED <<now, config, triggers, llmChecked, call, inbox, fileCount, processed,
                   sessionDirs, rawDir, captureLog, metricsLog, eventLog, invCount, started>>

\* Lines 144-146: the failed record is appended and process returns False.
HandlerMetrics ==
    /\ inv.pc = "h_metrics"
    /\ \/ /\ inv' = [inv EXCEPT !.pc = "done", !.outcome = "raised",
                                !.raised = Err("OSError: metrics")]
          /\ UNCHANGED metricsLog
       \/ /\ metricsLog' = Append(metricsLog, inv.metrics)
          /\ inv' = [inv EXCEPT !.pc = "done", !.outcome = "returned_false"]
    /\ UNCHANGED <<now, config, triggers, llmChecked, call, inbox, fileCount, processed,
                   sessionDirs, sessionFiles, rawDir, captureLog, eventLog, invCount, started>>

\* ------------------------------------------------- anonymization.py
\* Texts are sequences of characters.
UpperCase ==
    <<"A", "B", "C", "D", "E", "F", "G", "H", "I", "J", "K", "L", "M", "N", "O", "P", "Q", "R", "S", "T", "U", "V", "W", "X", "Y", "Z">>

LowerCase ==
    <<"a", "b", "c", "d", "e", "f", "g", "h", "i", "j", "k", "l", "m", "n", "o", "p", "q", "r", "s", "t", "u", "v", "w", "x", "y", "z">>

\* The character, lower-cased (what re.IGNORECASE compares).
Fold(c) ==
    IF \E i \in 1..Len(UpperCase) : UpperCase[i] = c
    THEN LowerCase[CHOOSE i \in 1..Len(UpperCase) : UpperCase[i] = c]
    ELSE c

\* ANONYMIZATION_MAP, in its insertion order.
AnonymizationMap ==
    << [original |-> <<"A", "n", "t", "h", "r", "o", "p", "i", "c">>,
        placeholder |-> <<"[", "C", "O", "M", "P", "A", "N", "Y", "_", "A", "]">>],
       [original |-> <<"G", "o", "o", "g", "l", "e">>,
        placeholder |-> <<"[", "C", "O", "M", "P", "A", "N", "Y", "_", "B", "]">>],
       [original |-> <<"O", "p", "e", "n", "A", "I">>,
        placeholder |-> <<"[", "C", "O", "M", "P", "A", "N", "Y", "_", "C", "]">>],
       [original |-> <<"O", "b", "s", "i", "d", "i", "a", "n">>,
        placeholder |-> <<"[", "T", "O", "O", "L", "_", "A", "]">>],
       [original |-> <<"O", "l", "l", "a", "m", "a">>,
        placeholder |-> <<"[", "T", "O", "O", "L", "_", "B", "]">>] >>

\* `pat` occurs in `text` at position i, compared exactly or ignoring case.
MatchAt(text, i, pat, ignoreCase) ==
    /\ i + Len(pat) - 1 <= Len(text)
    /\ \A k \in 1..Len(pat) :
          IF ignoreCase THEN Fold(text[i + k - 1]) = Fold(pat[k])
          ELSE text[i + k - 1] = pat[k]

\* Mutant of Search: the case is not ignored.
SearchExact(text, pat, ignoreCase) ==
    \E i \in 1..Len(text) : MatchAt(text, i, pat, FALSE)

\* pattern.search(text)
Search(text, pat, ignoreCase) ==
    \E i \in 1..Len(text) : MatchAt(text, i, pat, ignoreCase)

\* pattern.sub(repl, text) and str.replace(pat, repl): the leftmost
\* non-overlapping occurrences from position i on are replaced.
RECURSIVE ReplaceFrom(_, _, _, _, _)
ReplaceFrom(text, i, pat, repl, ignoreCase) ==
    IF i > Len(text) THEN <<>>
    ELSE IF MatchAt(text, i, pat, ignoreCase)
    THEN repl \o ReplaceFrom(text, i + Len(pat), pat, repl, ignoreCase)
    ELSE <<text[i]>> \o ReplaceFrom(text, i + 1, pat, repl, ignoreCase)

\* The loop of anonymize over the first n entries of the map: the text so
\* far and the reverse map, a sequence of <<placeholder, original>> in
\* insertion order.
RECURSIVE AnonymizeUpTo(_, _)
AnonymizeUpTo(text, n) ==
    IF n = 0 THEN [text |-> text, reverse_map |-> <<>>]
    ELSE LET prev == AnonymizeUpTo(text, n - 1)
             e == AnonymizationMap[n]
         IN  IF Search(prev.text, e.original, TRUE)
             THEN [text |-> ReplaceFrom(prev.text, 1, e.original,
                                        e.placeholder, TRUE),
                   reverse_map |-> Append(prev.reverse_map,
                                          <<e.placeholder, e.original>>)]
             ELSE prev

anonymize(text) == AnonymizeUpTo(text, Len(AnonymizationMap))

\* The loop of deanonymize over the first n entries of the reverse map.
RECURSIVE DeanonymizeUpTo(_, _, _)
DeanonymizeUpTo(text, reverse_map, n) ==
    IF n = 0 THEN text
    ELSE ReplaceFrom(DeanonymizeUpTo(text, reverse_map, n - 1), 1,
                     reverse_map[n][1], reverse_map[n][2], FALSE)

deanonymize(text, reverse_map) ==
    DeanonymizeUpTo(text, reverse_map, Len(reverse_map))

\* The pieces the input texts are put together from: spellings of two of the
\* terms, a placeholder, and other text.
Pieces ==
    { <<"G", "o", "o", "g", "l", "e">>, <<"g", "o", "o", "g", "l", "e">>, <<"G", "O", "O", "G", "L", "E">>,
      <<"O", "l", "l", "a", "m", "a">>, <<"o", "l", "l", "a", "m", "a">>,
      <<"[", "C", "O", "M", "P", "A", "N", "Y", "_", "B", "]">>, <<" ">>, <<"a">> }

\* The concatenations of n pieces.
RECURSIVE TextsOf(_)
TextsOf(n) ==
    IF n = 0 THEN { <<>> }
    ELSE { t \o q : t \in TextsOf(n - 1), q \in Pieces }

CodecTexts == UNION { TextsOf(n) : n \in 0..MaxPieces }

\* redact: Config.ANONYMIZE_FOR_CLAUDE in the call; input_text: what the
\* remote backend was handed.
IdleCodec ==
    [pc |-> "idle", text |-> <<>>, anonymized |-> <<>>, reverse_map |-> <<>>,
     restored |-> <<>>, redact |-> TRUE, input_text |-> <<>>]

\* anonymize(text) is called on one of the texts.
CodecAnonymize(text) ==
    /\ codec.pc = "idle"
    /\ LET a == anonymize(text)
       IN  codec' = [codec EXCEPT !.pc = "anonymized", !.text = text,
                                  !.anonymized = a.text,
                                  !.reverse_map = a.reverse_map]
    /\ UNCHANGED <<pipelineVars, other, batch, processing, notified, cb, runs>>

\* deanonymize is called on what anonymize returned.
CodecDeanonymize ==
    /\ codec.pc = "anonymized"
    /\ codec' = [codec EXCEPT !.pc = "restored",
                               !.restored = deanonymize(codec.anonymized,
                                                        codec.reverse_map)]
    /\ UNCHANGED <<pipelineVars, other, batch, processing, notified, cb, runs>>

\* ------------------------------------------------- breakdown_with_claude
\* Texts given to the remote breakdown: the codec's texts, and texts in which
\* two terms share characters.
RemoteTexts ==
    CodecTexts
    \cup { <<"O", "b", "s", "i", "d", "i", "a", "n", "t", "h", "r", "o", "p", "i", "c">>,
           <<"O", "l", "l", "a", "m", "A", "n", "t", "h", "r", "o", "p", "i", "c">>,
           <<"o", "p", "e", "n", "a", "i", "g", "o", "o", "g", "l", "e", " ", "O", "l", "l", "a", "m", "a">> }

\* What the remote backend answers (its text blocks joined).
RemoteReplies ==
    { <<>>, <<" ">>, <<"a">>, <<"[", "T", "O", "O", "L", "_", "B", "]">>,
      <<"[", "C", "O", "M", "P", "A", "N", "Y", "_", "B", "]", " ", "a">> }

\* breakdown_with_claude(clean_text), lines 131-159: without a client it
\* raises; else the text, anonymized when the redaction is enabled, is put
\* into the request.
RemoteSend(text, redact) ==
    /\ codec.pc = "idle"
    /\ IF ~hasKey
       THEN codec' = [IdleCodec EXCEPT !.pc = "raised", !.text = text,
                                       !.redact = redact]
       ELSE LET a == IF redact THEN anonymize(text)
                     ELSE [text |-> text, reverse_map |-> <<>>]
            IN  codec' = [IdleCodec EXCEPT !.pc = "sent", !.text = text,
                                           !.redact = redact,
                                           !.anonymized = a.text,
                                           !.input_text = a.text,
                                           !.reverse_map = a.reverse_map]
    /\ UNCHANGED <<pipelineVars, other, batch, processing, notified, cb, runs>>

\* Lines 161-173: the API raises, or the answer is stripped, deanonymized
\* when the reverse map is not empty, and returned unless it is empty.
RemoteReply ==
    /\ codec.pc = "sent"
    /\ \/ codec' = [codec EXCEPT !.pc = "raised"]
       \/ \E reply \in RemoteReplies :
             LET stripped == Strip(reply)
                 result == IF codec.reverse_map # <<>>
                           THEN deanonymize(stripped, codec.reverse_map)
                           ELSE stripped
             IN  codec' = [codec EXCEPT
                             !.pc = IF result = <<>> THEN "raised" ELSE "returned",
                             !.restored = result]
    /\ UNCHANGED <<pipelineVars, other, batch, processing, notified, cb, runs>>

\* The call is over; the caller goes on.
RemoteDone ==
    /\ codec.pc \in {"raised", "returned"}
    /\ codec' = IdleCodec
    /\ UNCHANGED <<pipelineVars, other, batch, processing, notified, cb, runs>>

\* ------------------------------------------------- manual.py, --all
\* ord(c) of the characters used in file names.
Code(c) == CASE c = Space -> 32 [] c = "-" -> 45 [] c = "M" -> 77 [] OTHER -> 109

\* Path ordering: the names compared character by character.
RECURSIVE PathLess(_, _)
PathLess(a, b) ==
    IF a = <<>> THEN b # <<>>
    ELSE IF b = <<>> THEN FALSE
    ELSE IF Head(a) # Head(b) THEN Code(Head(a)) < Code(Head(b))
    ELSE PathLess(Tail(a), Tail(b))

\* sorted(...)
RECURSIVE Sorted(_)
Sorted(S) ==
    IF S = {} THEN <<>>
    ELSE LET m == CHOOSE x \in S : \A y \in S \ {x} : PathLess(x, y)
         IN  <<m>> \o Sorted(S \ {m})

\* _iter_audio_files: the audio files in the inbox, sorted (the processed/
\* directory is not a file; every name here has a watched extension).
IterAudioFiles == Sorted({ s \in DOMAIN inbox : inbox[s] # 0 })

\* The file names a batch can find in the inbox.
BatchStems == { <<"M">>, <<"m", "m">> }

IdleBatch ==
    [pc |-> "idle", files |-> <<>>, raw_only |-> FALSE, clean_only |-> FALSE,
     called |-> <<>>]

\* main with target "--all", lines 40-48: _parse_args has exited when both
\* flags are given; the listing is taken once; an empty listing returns.
BatchStart(raw, clean) ==
    /\ batch.pc = "idle"
    /\ ~(raw /\ clean)
    /\ LET fs == IterAudioFiles
       IN  batch' = [batch EXCEPT !.pc = IF fs = <<>> THEN "returned" ELSE "loop",
                                  !.files = fs, !.raw_only = raw,
                                  !.clean_only = clean]
    /\ UNCHANGED <<now, config, llmChecked, call, files, inv, invCount, started,
                   processing, notified, cb, runs, codec, other>>

\* Lines 49-50: the previous call has returned; process is called on the
\* next item of the listing.
BatchCall ==
    /\ batch.pc = "loop"
    /\ Len(batch.called) < Len(batch.files)
    /\ inv.outcome \in {"none", "returned_true", "returned_false"}
    /\ LET item == batch.files[Len(batch.called) + 1]
       IN  /\ ProcessCall(item, batch.raw_only, batch.clean_only)
           /\ batch' = [batch EXCEPT !.called = Append(@, item)]
    /\ UNCHANGED <<processing, notified, cb, runs, codec, other>>

\* The loop is left: by line 51 after the last item, or by an exception
\* that process raised (main has no handler around the call).
BatchEnd ==
    /\ batch.pc = "loop"
    /\ inv.pc = "done"
    /\ \/ /\ inv.outcome = "raised"
          /\ batch' = [batch EXCEPT !.pc = "crashed"]
       \/ /\ inv.outcome # "raised"
          /\ Len(batch.called) = Len(batch.files)
          /\ batch' = [batch EXCEPT !.pc = "returned"]
    /\ UNCHANGED <<now, config, llmChecked, call, files, inv, invCount, started,
                   processing, notified, cb, runs, codec, other>>

\* ------------------------------------------------- watch.py
\* Config.WATCH_EXTENSIONS
WatchExtensions == {".webm", ".m4a", ".mp3", ".wav", ".ogg", ".flac"}

\* str.lower() on the suffixes used here.
LowerSuffix(x) == IF x = ".WAV" THEN ".wav" ELSE x

\* The file-creation events the observer can deliver: a path (name and
\* suffix) and whether it is a directory.
Events ==
    { [path |-> <<"memo", ".wav">>, is_directory |-> FALSE],
      [path |-> <<"talk", ".WAV">>, is_directory |-> FALSE],
      [path |-> <<"notes", ".txt">>, is_directory |-> FALSE],
      [path |-> <<"sub", "">>, is_directory |-> TRUE] }

\* The on_created activations that can be under way at once.
Callbacks == 1..MaxCallbacks

\* serial: no other callback was handling the path when this one was entered.
IdleCb == [pc |-> "idle", path |-> <<>>, slept |-> FALSE, serial |-> TRUE]

\* on_created is entered, lines 19-25: a directory event or a suffix that is
\* not watched returns at once.
OnCreated(c, event) ==
    /\ cb[c].pc = "idle"
    /\ notified < MaxEvents
    /\ notified' = notified + 1
    /\ cb' = IF event.is_directory
                 \/ LowerSuffix(event.path[2]) \notin WatchExtensions
              THEN cb
              ELSE [cb EXCEPT ![c] =
                      [pc |-> "test", path |-> event.path, slept |-> FALSE,
                       serial |-> \A d \in Callbacks \ {c} :
                                     cb[d].path # event.path]]
    /\ UNCHANGED <<pipelineVars, other, codec, batch, processing, runs>>

\* Lines 27-28: the membership test; a path in the set returns.
InFlightTest(c) ==
    /\ cb[c].pc = "test"
    /\ cb' = [cb EXCEPT ![c] = IF cb[c].path \in processing
                               THEN IdleCb
                               ELSE [@ EXCEPT !.pc = "add"]]
    /\ UNCHANGED <<pipelineVars, other, codec, batch, processing, notified, runs>>

\* Line 30.
InFlightAdd(c) ==
    /\ cb[c].pc = "add"
    /\ processing' = processing \cup {cb[c].path}
    /\ cb' = [cb EXCEPT ![c].pc = "sleep"]
    /\ UNCHANGED <<pipelineVars, other, codec, batch, notified, runs>>

\* Line 33: time.sleep(Config.WATCH_SETTLE_SECONDS) has elapsed.
Settle(c) ==
    /\ cb[c].pc = "sleep"
    /\ cb' = [cb EXCEPT ![c].pc = "call", ![c].slept = TRUE]
    /\ UNCHANGED <<pipelineVars, other, codec, batch, processing, notified, runs>>

\* Line 34: process(path) is entered.  The invocation itself is the pipeline
\* above; the handler sees only that it is under way and how it ends.
WatchProcess(c) ==
    /\ cb[c].pc = "call"
    /\ cb' = [cb EXCEPT ![c].pc = "process"]
    /\ runs' = Append(runs, [path |-> cb[c].path, cb |-> c,
                             settled |-> cb[c].slept,
                             serial |-> cb[c].serial])
    /\ UNCHANGED <<pipelineVars, other, codec, batch, processing, notified>>

\* process is over: it returned (True or False) and line 36 is next, or it
\* raised and the exception leaves on_created before line 36.
WatchProcessEnd(c) ==
    /\ cb[c].pc = "process"
    /\ \E raised \in BOOLEAN :
          cb' = [cb EXCEPT ![c] = IF raised THEN IdleCb
                                  ELSE [@ EXCEPT !.pc = "discard"]]
    /\ UNCHANGED <<pipelineVars, other, codec, batch, processing, notified, runs>>

\* Line 36.
InFlightDiscard(c) ==
    /\ cb[c].pc = "discard"
    /\ processing' = processing \ {cb[c].path}
    /\ cb' = [cb EXCEPT ![c] = IdleCb]
    /\ UNCHANGED <<pipelineVars, other, codec, batch, notified, runs>>

\* ------------------------------------------------- specification
\* A fresh vault and a freshly constructed AudioProcessor.
Files0 ==
    /\ now = 0
    /\ llmChecked = FALSE
    /\ call = IdleCall
    /\ inbox = [s \in AudioStems |-> 0]
    /\ fileCount = 0
    /\ processed = {}
    /\ sessionDirs = {}
    /\ sessionFiles = {}
    /\ rawDir = {}
    /\ captureLog = <<>>
    /\ metricsLog = <<>>
    /\ eventLog = <<>>
    /\ inv = IdleInv
    /\ invCount = 0
    /\ started = <<>>

\* No batch has started, no notification has been delivered.
Triggers0 ==
    /\ batch = IdleBatch
    /\ processing = {}
    /\ notified = 0
    /\ cb = [c \in Callbacks |-> IdleCb]
    /\ runs = <<>>
    /\ codec = IdleCodec
    /\ other = IdleFrame

\* The pipeline under the default configuration (config.py lines 66 and 70),
\* with and without a remote credential.
Init ==
    /\ retries = DefaultRetries
    /\ useClaude = TRUE
    /\ hasKey \in BOOLEAN
    /\ Files0
    /\ Triggers0

Next ==
    \/ Tick
    \/ \E stem \in AudioStems : Arrive(stem)
    \/ \E stem \in AudioStems, raw \in BOOLEAN, clean \in BOOLEAN :
          ProcessCall(stem, raw, clean) /\ UNCHANGED triggers
    \/ Transcribe
    \/ SaveRaw
    \/ CleanupCall
    \/ LlmCheck
    \/ LlmAttempt
    \/ CleanupReturn
    \/ WriteClean
    \/ BreakdownRoute
    \/ ClaudeBreakdown
    \/ LocalBreakdownReturn
    \/ WriteTasks
    \/ Capture
    \/ Archive
    \/ WriteMeta
    \/ AppendMetrics
    \/ LogEvent
    \/ HandlerMeta
    \/ HandlerMetrics

Spec == Init /\ [][Next]_vars

\* ---------------------------------------- the client on its own
\* cleanup_transcription (line 99) and breakdown_with_local_llm (line 129)
\* called on an LLMProcessor directly, for every retry configuration.
ClientCall(op) ==
    /\ inv.pc = "idle"
    /\ call.step = "idle"
    /\ call' = StartCall(op)
    /\ UNCHANGED <<now, config, triggers, llmChecked, files, inv, invCount, started>>

\* The call has returned or raised; the caller goes on.
ClientReturn ==
    /\ inv.pc = "idle"
    /\ call.step = "done"
    /\ call' = IdleCall
    /\ UNCHANGED <<now, config, triggers, llmChecked, files, inv, invCount, started>>

InitLLM ==
    /\ retries \in -1..MaxRetries
    /\ useClaude = TRUE
    /\ hasKey = FALSE
    /\ Files0
    /\ Triggers0

NextLLM ==
    \/ \E op \in {"cleanup", "task breakdown"} : ClientCall(op)
    \/ LlmCheck
    \/ LlmAttempt
    \/ ClientReturn

SpecLLM == InitLLM /\ [][NextLLM]_vars

\* ---------------------------------------- the routing policy
\* n ordinary words, one blank between neighbours.
RECURSIVE Words(_)
Words(n) ==
    IF n = 0 THEN <<>>
    ELSE IF n = 1 THEN <<"w">>
    ELSE Words(n - 1) \o <<Space, "w">>

\* What a text can end with: nothing, blanks, or words with and without a
\* phrase in them.
Endings ==
    { <<>>, <<Space>>, <<Space, "w">>, <<Space, "plan">>, <<Space, "Plan">>,
      <<Space, "Planning">>, <<Space, "Break", Space, "down">>,
      <<Space, "break", Space, Space, "down">>, <<Space, "down">> }

\* Texts around the word threshold: MaxWords - 2 to MaxWords ordinary words
\* (and none, and one), then one of the endings.
RoutingTexts ==
    { Words(n) \o e : n \in {0, 1} \cup ((MaxWords - 2)..MaxWords), e \in Endings }

\* breakdown_tasks(text) called on an LLMProcessor directly, line 175.
BreakdownTasksCall(text) ==
    /\ inv.pc = "idle"
    /\ call.step = "idle"
    /\ inv' = [IdleInv EXCEPT !.pc = "breakdown", !.clean_text = text]
    /\ UNCHANGED <<now, config, triggers, llmChecked, call, files, invCount,
                   started>>

\* breakdown_tasks has returned its (text, label) pair or raised; the caller
\* goes on.
BreakdownTasksEnd ==
    /\ inv.id = 0
    /\ inv.pc \in {"write_tasks", "h_meta"}
    /\ inv' = IdleInv
    /\ UNCHANGED <<now, config, triggers, llmChecked, call, files, invCount,
                   started>>

\* Every configuration of the remote breakdown: enabled or not (config.py
\* line 70), with or without a credential (llm.py lines 16-19).
InitRouting ==
    /\ retries = DefaultRetries
    /\ useClaude \in BOOLEAN
    /\ hasKey \in BOOLEAN
    /\ Files0
    /\ Triggers0

NextRouting ==
    \/ \E text \in RoutingTexts : BreakdownTasksCall(text)
    \/ BreakdownRoute
    \/ ClaudeBreakdown
    \/ LlmCheck
    \/ LlmAttempt
    \/ LocalBreakdownReturn
    \/ BreakdownTasksEnd

SpecRouting == InitRouting /\ [][NextRouting]_vars

\* ---------------------------------------- the processed store
\* A recording lands in the inbox under one of the names.
Recorded(stem) ==
    /\ inbox[stem] = 0
    /\ fileCount < MaxArchives
    /\ fileCount' = fileCount + 1
    /\ inbox' = [inbox EXCEPT ![stem] = fileCount + 1]
    /\ UNCHANGED <<now, config, triggers, llmChecked, call, processed,
                   sessionDirs, sessionFiles, rawDir, captureLog, metricsLog,
                   eventLog, inv, invCount, started>>

\* _archive_audio(audio_path) on a file of the inbox, lines 188-194.
ArchiveAudio(stem) ==
    /\ inbox[stem] # 0
    /\ processed' = MoveInto(processed, ArchiveDest(stem), inbox[stem])
    /\ inbox' = [inbox EXCEPT ![stem] = 0]
    /\ UNCHANGED <<now, config, triggers, llmChecked, call, fileCount,
                   sessionDirs, sessionFiles, rawDir, captureLog, metricsLog,
                   eventLog, inv, invCount, started>>

\* An empty vault whose inbox can hold the batch's names.
InitArchive ==
    /\ retries = DefaultRetries
    /\ useClaude = TRUE
    /\ hasKey = FALSE
    /\ now = 0
    /\ llmChecked = FALSE
    /\ call = IdleCall
    /\ inbox = [s \in BatchStems |-> 0]
    /\ fileCount = 0
    /\ processed = {}
    /\ sessionDirs = {}
    /\ sessionFiles = {}
    /\ rawDir = {}
    /\ captureLog = <<>>
    /\ metricsLog = <<>>
    /\ eventLog = <<>>
    /\ inv = IdleInv
    /\ invCount = 0
    /\ started = <<>>
    /\ Triggers0

NextArchive ==
    \/ Tick
    \/ \E stem \in BatchStems : Recorded(stem)
    \/ \E stem \in BatchStems : ArchiveAudio(stem)

SpecArchive == InitArchive /\ [][NextArchive]_vars

\* ---------------------------------------- the watch handler
\* One AudioFileHandler receiving notifications; its callbacks may overlap
\* when more than one thread delivers them.
InitWatch ==
    /\ retries = DefaultRetries
    /\ useClaude = TRUE
    /\ hasKey = FALSE
    /\ Files0
    /\ Triggers0

NextWatch ==
    \/ \E c \in Callbacks, event \in Events : OnCreated(c, event)
    \/ \E c \in Callbacks : InFlightTest(c)
    \/ \E c \in Callbacks : InFlightAdd(c)
    \/ \E c \in Callbacks : Settle(c)
    \/ \E c \in Callbacks : WatchProcess(c)
    \/ \E c \in Callbacks : WatchProcessEnd(c)
    \/ \E c \in Callbacks : InFlightDiscard(c)

SpecWatch == InitWatch /\ [][NextWatch]_vars

\* ---------------------------------------- the redaction codec
\* anonymize, then deanonymize with the map it returned, on any of the texts.
InitCodec ==
    /\ retries = DefaultRetries
    /\ useClaude = TRUE
    /\ hasKey = FALSE
    /\ Files0
    /\ Triggers0

NextCodec ==
    \/ \E text \in CodecTexts : CodecAnonymize(text)
    \/ CodecDeanonymize

SpecCodec == InitCodec /\ [][NextCodec]_vars

\* ---------------------------------------- the remote breakdown
\* breakdown_with_claude called on an LLMProcessor directly, with and without
\* a credential, the redaction (config.py line 71) enabled or not.
InitRemote ==
    /\ retries = DefaultRetries
    /\ useClaude = TRUE
    /\ hasKey \in BOOLEAN
    /\ Files0
    /\ Triggers0

NextRemote ==
    \/ \E text \in RemoteTexts, redact \in BOOLEAN : RemoteSend(text, redact)
    \/ RemoteReply
    \/ RemoteDone

SpecRemote == InitRemote /\ [][NextRemote]_vars

\* ------------------------------------------------- two processes, one file
\* manual.py (line 39) and watch.py (line 16) each build their own
\* AudioProcessor and call process on paths of the same inbox, with nothing
\* between them: the scheduler may run either at any statement.  The pipeline
\* variables hold the process that is running and `other` the one that is not.
Switch ==
    /\ other' = [inv |-> inv, call |-> call, llmChecked |-> llmChecked]
    /\ inv' = other.inv
    /\ call' = other.call
    /\ llmChecked' = other.llmChecked
    /\ UNCHANGED <<now, config, files, invCount, started, batch, processing,
                   notified, cb, runs, codec>>

\* One recording waits in the inbox; the processed store is empty or holds an
\* earlier recording of the same name.  The local client does not retry
\* (LOCAL_LLM_MAX_RETRIES=0) and a remote credential is configured.
InitRace ==
    /\ retries = 0
    /\ useClaude = TRUE
    /\ hasKey = TRUE
    /\ now = 0
    /\ llmChecked = FALSE
    /\ call = IdleCall
    /\ \E earlier \in BOOLEAN :
          /\ fileCount = (IF earlier THEN 2 ELSE 1)
          /\ inbox = [s \in AudioStems |-> fileCount]
          /\ processed = IF earlier
                         THEN {[stem |-> CHOOSE s \in AudioStems : TRUE,
                                suffix |-> -1, content |-> 1]}
                         ELSE {}
    /\ sessionDirs = {}
    /\ sessionFiles = {}
    /\ rawDir = {}
    /\ captureLog = <<>>
    /\ metricsLog = <<>>
    /\ eventLog = <<>>
    /\ inv = IdleInv
    /\ invCount = 0
    /\ started = <<>>
    /\ Triggers0

\* Each of the two processes calls process once, on the same path, within one
\* clock second (the two calls then share their session id as well).
NextRace ==
    \/ Switch
    \/ \E stem \in AudioStems, raw \in BOOLEAN, clean \in BOOLEAN :
          /\ inv.pc = "idle"
          /\ ProcessCall(stem, raw, clean)
          /\ UNCHANGED triggers
    \/ Transcribe
    \/ SaveRaw
    \/ CleanupCall
    \/ LlmCheck
    \/ LlmAttempt
    \/ CleanupReturn
    \/ WriteClean
    \/ BreakdownRoute
    \/ ClaudeBreakdown
    \/ LocalBreakdownReturn
    \/ WriteTasks
    \/ Capture
    \/ ArchiveCheck
    \/ ArchiveMove
    \/ WriteMeta
    \/ AppendMetrics
    \/ LogEvent
    \/ HandlerMeta
    \/ HandlerMetrics

SpecRace == InitRace /\ [][NextRace]_vars

\* ---------------------------------------- the manual batch
\* The stages of process after the call: everything process does between its
\* session setup and its return.
Stages ==
    \/ Transcribe
    \/ SaveRaw
    \/ CleanupCall
    \/ LlmCheck
    \/ LlmAttempt
    \/ CleanupReturn
    \/ WriteClean
    \/ BreakdownRoute
    \/ ClaudeBreakdown
    \/ LocalBreakdownReturn
    \/ WriteTasks
    \/ Capture
    \/ Archive
    \/ WriteMeta
    \/ AppendMetrics
    \/ LogEvent
    \/ HandlerMeta
    \/ HandlerMetrics

\* python manual.py [--raw-only|--clean-only] --all, on an inbox that holds
\* any of the batch's files.
InitBatch ==
    /\ retries = DefaultRetries
    /\ useClaude = TRUE
    /\ hasKey \in BOOLEAN
    /\ now = 0
    /\ llmChecked = FALSE
    /\ call = IdleCall
    /\ \E present \in SUBSET BatchStems :
          inbox = [s \in BatchStems |->
                     IF s \in present THEN Len(s) ELSE 0]
    /\ fileCount = Cardinality(BatchStems)
    /\ processed = {}
    /\ sessionDirs = {}
    /\ sessionFiles = {}
    /\ rawDir = {}
    /\ captureLog = <<>>
    /\ metricsLog = <<>>
    /\ eventLog = <<>>
    /\ inv = IdleInv
    /\ invCount = 0
    /\ started = <<>>
    /\ Triggers0

NextBatch ==
    \/ Tick
    \/ \E raw \in BOOLEAN, clean \in BOOLEAN : BatchStart(raw, clean)
    \/ BatchCall
    \/ BatchEnd
    \/ Stages

SpecBatch == InitBatch /\ [][NextBatch]_vars

\* ====================================================== the claims
Range(seq) == { seq[i] : i \in 1..Len(seq) }

\* The lines of metrics.jsonl that invocation `id` appended.
RecordsBy(id) == { i \in 1..Len(metricsLog) : metricsLog[i].by = id }

\* The blocks of capture.md that invocation `id` appended.
CapturesBy(id) == { i \in 1..Len(captureLog) : captureLog[i].by = id }

\* The steps that make up the six stages transcription, raw-transcript write,
\* cleanup, breakdown, capture write and archive.
StageSteps ==
    {"transcribe", "save_raw", "cleanup", "write_clean", "breakdown",
     "write_tasks", "capture", "archive"}

C2_FailedLeavesAudio ==
    (\E i \in RecordsBy(inv.id) : metricsLog[i].status = "failed") =>
        /\ inv.metrics.archived = NoDest
        /\ inv.source # 0 => inbox[inv.stem] = inv.source

\* C3 (as claimed): an invocation never has two records in the metrics log,
\* never rewrites its session metadata once a record is persisted, and has
\* exactly one record when process has ended.
C3_ExactlyOneRecord ==
    inv.id > 0 =>
        /\ Cardinality(RecordsBy(inv.id)) <= 1
        /\ RecordsBy(inv.id) # {} => inv.metaWrites <= 1
        /\ inv.pc = "done" => Cardinality(RecordsBy(inv.id)) = 1

\* C4: when transcription succeeded and the cleanup call raised, every record
\* the invocation persists has status 'failed', a non-empty error, a
\* 'transcription' duration and neither a 'cleanup' nor a 'breakdown' duration;
\* the breakdown is never started, no capture block is appended and the audio
\* stays in the inbox, unarchived.
C4_CleanupFailure ==
    inv.failedAt = "cleanup" =>
        /\ \A i \in RecordsBy(inv.id) :
              /\ metricsLog[i].status = "failed"
              /\ metricsLog[i].error.type # ""
              /\ "transcription" \in metricsLog[i].durs
              /\ "cleanup" \notin metricsLog[i].durs
              /\ "breakdown" \notin metricsLog[i].durs
        /\ Range(inv.ran) \cap {"breakdown", "write_tasks", "capture", "archive"} = {}
        /\ call.step = "idle"
        /\ CapturesBy(inv.id) = {}
        /\ inv.metrics.archived = NoDest
        /\ inbox[inv.stem] # 0

\* C4 witness: the cleanup call raised and the failed record is in the log.
C4_Witness ==
    /\ inv.failedAt = "cleanup"
    /\ "transcription" \in inv.metrics.durs
    /\ RecordsBy(inv.id) # {}

C6_CleanOnly ==
    (inv.id > 0 /\ inv.clean_only /\ ~inv.raw_only) =>
        /\ Range(inv.ran) \cap {"breakdown", "write_tasks"} = {}
        /\ inv.pc \notin {"breakdown", "claude", "local_breakdown", "write_tasks"}
        /\ call.op # "task breakdown"
        /\ "breakdown" \notin inv.metrics.durs
        /\ \A f \in sessionFiles : f.by = inv.id => f.file # "tasks_breakdown.md"
        /\ \A i \in CapturesBy(inv.id) :
              /\ captureLog[i].tasks = SkippedText
              /\ captureLog[i].breakdown_model = "skipped_clean_only"
        /\ \A i \in RecordsBy(inv.id) :
              /\ "breakdown" \notin metricsLog[i].durs
              /\ (metricsLog[i].status = "success"
                    \/ "capture_write" \in metricsLog[i].durs) =>
                    metricsLog[i].breakdown_model = "skipped_clean_only"

\* C6 witness: a clean-only invocation has appended its capture block and
\* returned True.
C6_Witness ==
    /\ inv.clean_only
    /\ CapturesBy(inv.id) # {}
    /\ inv.outcome = "returned_true"

\* C7: an invocation with both flags set has ended with the configuration
\* error and has run no step, and the call that raised it changed nothing:
\* no session directory or file, no log, no audio file, no client state.
C7_FlagConflictRaisesFirst ==
    /\ [](inv.raw_only /\ inv.clean_only =>
            /\ inv.pc = "done"
            /\ inv.outcome = "raised"
            /\ inv.raised = Err("ValueError: flags")
            /\ inv.ran = <<>>
            /\ \A i \in 1..Len(started) : started[i].id # inv.id
            /\ \A f \in sessionFiles : f.by # inv.id
            /\ RecordsBy(inv.id) = {})
    /\ [][(inv'.id # inv.id /\ inv'.raw_only /\ inv'.clean_only) =>
            UNCHANGED <<files, call, llmChecked, started, now>>]_vars

\* C7 witness: process was called with both flags.
C7_Witness == inv.id > 0 /\ inv.raw_only /\ inv.clean_only

\* C8 (as claimed): two consecutive invocations on existing files of the same
\* name have distinct session ids (hence directories), and the second replaces
\* no file of the first's session.
C8_DistinctSessions ==
    \A i \in 1..(Len(started) - 1) :
        LET a == started[i]
            b == started[i + 1]
        IN  (a.stem = b.stem /\ a.source # 0 /\ b.source # 0) =>
              /\ a.sid # b.sid
              /\ \A f \in sessionFiles : f.sid = a.sid => f.by # b.id

\* N = max(1, LOCAL_LLM_RETRIES + 1), as the claim states it.
ClaimAttempts == IF retries + 1 > 1 THEN retries + 1 ELSE 1

\* A failed attempt: a network or HTTP error, or a response whose content is
\* absent, empty or whitespace.
FailedResponse(resp) ==
    \/ resp.kind \in {"request_error", "no_choices_key", "no_message", "no_content"}
    \/ resp.kind = "content" /\ Strip(resp.content) = <<>>

NoUsableContent(resp) ==
    /\ resp.kind # "request_error"
    /\ ~(resp.kind = "content" /\ Strip(resp.content) # <<>>)

\* C10 (as claimed): a response without usable content consumes an attempt
\* and is followed by a retry while attempts remain, and by the terminal
\* error otherwise; no other exception leaves the loop.
C10_EmptyIsRetryable ==
    (call.sent > 0 /\ NoUsableContent(call.lastResp)) =>
        IF call.sent < ClaimAttempts
        THEN call.step = "loop" /\ call.attempt = call.sent + 1
        ELSE call.outcome = "raised" /\ call.error.type = "RuntimeError"

\* C11 (as claimed): a batch that is over has called process on every file of
\* its listing, in listing order, and process lets no exception other than
\* the flag-check error out.
C11_BatchCoversListing ==
    /\ batch.pc \in {"returned", "crashed"} => batch.called = batch.files
    /\ (batch.pc # "idle" /\ inv.outcome = "raised") =>
          inv.raised = Err("ValueError: flags")

\* The callbacks whose process invocation on `path` is under way.
InProcess(path) == { c \in Callbacks : cb[c].pc = "process" /\ cb[c].path = path }

\* C12 (as claimed): no two process invocations for the same path are under
\* way at once, and a callback that is past the membership test is the only
\* one past it for its path.
C12_OneInFlightPerPath ==
    \A e \in Events : Cardinality(InProcess(e.path)) <= 1

\* C13 (as claimed, for notifications that do not race): two notifications
\* for the same path, each delivered while no other callback was handling
\* that path, never both lead to a process invocation, and every invocation
\* followed the settle delay.
C13_OncePerFile ==
    /\ \A i, j \in 1..Len(runs) :
          (i < j /\ runs[i].path = runs[j].path) =>
              ~(runs[i].serial /\ runs[j].serial)
    /\ \A i \in 1..Len(runs) : runs[i].settled

\* C14 (as claimed): no block of the capture log was appended by an
\* invocation that has a record with status 'failed', and none by a raw-only
\* invocation.
C14_CaptureOnlyForSuccess ==
    \A i \in 1..Len(captureLog) :
        \A r \in 1..Len(metricsLog) :
            metricsLog[r].by = captureLog[i].by =>
                /\ metricsLog[r].status # "failed"
                /\ ~metricsLog[r].raw_only

\* C15 (as claimed): deanonymize(anonymize(text)[0], anonymize(text)[1])
\* is the text again.  (No term of the map is a substring of its placeholder.)
C15_RoundTrip ==
    codec.pc = "restored" => codec.restored = codec.text

\* The number of words of a text: the places where a word ends (a non-blank
\* that is last or is followed by a blank).
WordsIn(t) ==
    Cardinality({ i \in 1..Len(t) :
                    t[i] # Space /\ (i = Len(t) \/ t[i + 1] = Space) })

\* The lower-cased text contains "plan" or "break down".
Mentions(t) ==
    \/ \E i \in 1..Len(t) : t[i] \in {"plan", "Plan", "Planning", "planning"}
    \/ \E i \in 1..(Len(t) - 2) :
          /\ t[i] \in {"break", "Break"}
          /\ t[i + 1] = Space
          /\ t[i + 2] = "down"

\* The routing the claim states: never remote when the remote breakdown is
\* disabled or has no credential, else remote exactly for more than 60
\* words or a phrase.
Routed(t) == useClaude /\ hasKey /\ (WordsIn(t) > 60 \/ Mentions(t))

\* C16: should_use_claude(text) is the routing the claim states, for every
\* text and configuration; breakdown_tasks enters the remote backend only for
\* a text routed to it and the local backend only for one that is not, with
\* the other backend not called, and labels its result 'claude' in the first
\* case and 'local_llm' in the second.
C16_Routing ==
    /\ \A t \in RoutingTexts : ShouldUseClaude(t) = Routed(t)
    /\ inv.id = 0 =>
          /\ inv.pc = "claude" => Routed(inv.clean_text) /\ call.step = "idle"
          /\ inv.pc = "local_breakdown" =>
                ~Routed(inv.clean_text) /\ call.op = "task breakdown"
          /\ call.step # "idle" => inv.pc = "local_breakdown"
          /\ inv.pc = "write_tasks" =>
                /\ inv.model_used \in {"claude", "local_llm"}
                /\ inv.model_used = "claude" <=> Routed(inv.clean_text)
          /\ inv.failedAt = "breakdown" =>
                (inv.exc.type \in {"anthropic.APIError",
                                   "ValueError: Claude breakdown returned empty text"}
                    <=> Routed(inv.clean_text))

\* C16 witness: a text of more than 60 words without a phrase came back
\* labelled 'claude', with the remote breakdown enabled and a credential.
C16_Witness ==
    /\ inv.id = 0
    /\ inv.pc = "write_tasks"
    /\ inv.model_used = "claude"
    /\ WordsIn(inv.clean_text) = 61
    /\ ~Mentions(inv.clean_text)

\* The lines of the event log that invocation `id` appended.
EventsBy(id) == { i \in 1..Len(eventLog) : eventLog[i].by = id }

\* C17 (as claimed): an invocation that started the pipeline and has
\* returned, True after a success or False after a failure, has appended
\* exactly one line to the event log.
C17_EventPerRun ==
    inv.outcome \in {"returned_true", "returned_false"} =>
        Cardinality(EventsBy(inv.id)) = 1

\* The stage a step of process belongs to, in the order of the claim.
StageOf(step) ==
    CASE step = "transcribe" -> 1
      [] step = "save_raw" -> 2
      [] step \in {"cleanup", "write_clean"} -> 3
      [] step \in {"breakdown", "write_tasks"} -> 4
      [] step = "capture" -> 5
      [] step = "archive" -> 6
      [] step \in {"write_meta", "append_metrics"} -> 7
      [] OTHER -> 8

\* C18 (as claimed): the steps an invocation has run are in stage order and
\* none is run twice; the record is persisted once (one write of the session
\* metadata, one line of the metrics log); and a record with status 'success'
\* was persisted after the archive and carries the archived path.
C18_StageOrder ==
    /\ \A i, j \in 1..Len(inv.ran) :
          i < j => /\ StageOf(inv.ran[i]) <= StageOf(inv.ran[j])
                   /\ inv.ran[i] # inv.ran[j]
    /\ inv.metaWrites <= 1
    /\ Cardinality(RecordsBy(inv.id)) <= 1
    /\ \A r \in RecordsBy(inv.id) :
          metricsLog[r].status = "success" =>
              /\ metricsLog[r].archived # NoDest
              /\ "archive" \in Range(inv.ran)

\* C19: a completion request is sent only after a probe has succeeded on
\* the instance (in this call or an earlier one); once the flag is set, no
\* call probes again; and a failed probe ends the call at once with the
\* probe's own exception: no request sent, no attempt counted, not the
\* terminal error of the retry loop, and the flag still unset.
C19_ProbeOnce ==
    /\ [](/\ call.sent > 0 => llmChecked /\ call.probe \in {"ok", "skipped"}
          /\ call.step = "loop" => llmChecked /\ call.probe \in {"ok", "skipped"}
          /\ call.probe = "failed" =>
                /\ call.step = "done"
                /\ call.outcome = "raised"
                /\ call.error = Err("RequestException")
                /\ call.sent = 0
                /\ call.attempt = 0
                /\ call.last_error = "")
    /\ [][/\ llmChecked =>
                /\ llmChecked'
                /\ (call'.probe = call.probe \/ call'.probe \in {"none", "skipped"})
          /\ (~llmChecked /\ call'.probe = "failed") => ~llmChecked']_vars

\* C19 witness: on an instance whose probe has succeeded, a later call has
\* skipped the probe and sent a completion request.
C19_Witness ==
    /\ llmChecked
    /\ call.probe = "skipped"
    /\ call.sent > 0

\* C20 (as claimed): every recording that was archived is still in the
\* processed store with its content: each file ever created is in the inbox
\* or in the store.
C20_ArchiveKeepsFiles ==
    \A k \in 1..fileCount :
        \/ \E stem \in DOMAIN inbox : inbox[stem] = k
        \/ \E f \in processed : f.content = k

\* C21 (as claimed): a path is in the in-flight set only while a callback
\* that added it is still under way (between its insertion and its removal);
\* no path stays in the set after its callback has ended.
C21_InFlightRemoved ==
    \A path \in processing :
        \E c \in Callbacks :
            /\ cb[c].path = path
            /\ cb[c].pc \in {"sleep", "call", "process", "discard"}

\* The step of the current invocation has run to its end.
Completed(step) == step \in Range(inv.ran) /\ inv.failedAt # step

\* The timed stages the current invocation has completed.
CompletedStages ==
    (IF Completed("transcribe") THEN {"transcription"} ELSE {})
    \cup (IF Completed("cleanup") /\ inv.pc # "cleanup" THEN {"cleanup"} ELSE {})
    \cup (IF Completed("breakdown")
              /\ inv.pc \notin {"breakdown", "claude", "local_breakdown"}
           THEN {"breakdown"} ELSE {})
    \cup (IF Completed("capture") THEN {"capture_write"} ELSE {})

\* C22: every line of the metrics log and every session_meta.json has status
\* 'success' or 'failed'; every line has a 'total' duration, 'transcription'
\* when it has 'cleanup', 'cleanup' when it has 'breakdown' or
\* 'capture_write', and all four stage keys when it is the success record of
\* a normal run; and the stage keys of a line the current invocation wrote
\* are exactly the timed stages it has completed.
C22_RecordKeys ==
    /\ \A r \in 1..Len(metricsLog) :
          LET d == metricsLog[r].durs
          IN  /\ metricsLog[r].status \in {"success", "failed"}
              /\ "total" \in d
              /\ "cleanup" \in d => "transcription" \in d
              /\ "breakdown" \in d => "cleanup" \in d
              /\ "capture_write" \in d => "cleanup" \in d
              /\ (metricsLog[r].status = "success" /\ ~metricsLog[r].raw_only
                    /\ ~metricsLog[r].clean_only) =>
                    {"transcription", "cleanup", "breakdown", "capture_write"}
                        \subseteq d
    /\ \A r \in RecordsBy(inv.id) :
          metricsLog[r].durs \ {"total"} = CompletedStages
    /\ \A f \in sessionFiles :
          f.file = "session_meta.json" =>
              f.text \in {<<"success">>, <<"failed">>}

\* C22 witness: the success record of a normal run, with the breakdown timed,
\* is in the metrics log.
C22_Witness ==
    \E r \in RecordsBy(inv.id) :
        /\ metricsLog[r].status = "success"
        /\ ~metricsLog[r].raw_only /\ ~metricsLog[r].clean_only
        /\ "breakdown" \in metricsLog[r].durs

\* The term occurs in the text, whatever the case of its letters.
Occurs(t, term) ==
    \E i \in 1..(Len(t) - Len(term) + 1) :
        \A k \in 1..Len(term) : Fold(t[i + k - 1]) = Fold(term[k])

\* The orders in which the entries of the table can be applied.
Orders ==
    { o \in [1..Len(AnonymizationMap) -> 1..Len(AnonymizationMap)] :
        \A i, j \in DOMAIN o : o[i] = o[j] => i = j }

\* The text after the first n substitutions of the table applied in the
\* order `order`.
RECURSIVE SubstitutedUpTo(_, _, _)
SubstitutedUpTo(text, order, n) ==
    IF n = 0 THEN text
    ELSE LET e == AnonymizationMap[order[n]]
         IN  ReplaceFrom(SubstitutedUpTo(text, order, n - 1), 1, e.original,
                         e.placeholder, TRUE)

\* The terms of the table that have an entry in the reverse map.
Mapped(reverse_map) ==
    { n \in 1..Len(AnonymizationMap) :
        \E i \in 1..Len(reverse_map) :
            reverse_map[i] = <<AnonymizationMap[n].placeholder,
                               AnonymizationMap[n].original>> }

\* C23: with the redaction enabled, the text handed to the remote backend
\* contains no term of the table in any case; the same is true of the text
\* after the substitutions applied in any other order, and after each
\* substitution the terms replaced so far stay absent; the reverse map has
\* one entry per term found, each for a term that occurs in the input, and
\* every term of the input without an entry shares characters with a term
\* that has one (it was no longer there when its turn came).
C23_NoTermLeaves ==
    (codec.pc = "sent" /\ codec.redact) =>
        /\ \A n \in 1..Len(AnonymizationMap) :
              ~Occurs(codec.input_text, AnonymizationMap[n].original)
        /\ \A o \in Orders :
              \A n \in 1..Len(AnonymizationMap) :
                  LET t == SubstitutedUpTo(codec.text, o, n)
                  IN  \A m \in 1..n : ~Occurs(t, AnonymizationMap[o[m]].original)
        /\ Len(codec.reverse_map) = Cardinality(Mapped(codec.reverse_map))
        /\ \A n \in 1..Len(AnonymizationMap) :
              /\ n \in Mapped(codec.reverse_map) =>
                    Occurs(codec.text, AnonymizationMap[n].original)
              /\ (Occurs(codec.text, AnonymizationMap[n].original)
                    /\ n \notin Mapped(codec.reverse_map)) =>
                    \E m \in Mapped(codec.reverse_map) :
                        m < n /\ ~Occurs(ReplaceFrom(codec.text, 1,
                                             AnonymizationMap[m].original,
                                             <<"|">>, TRUE),
                                         AnonymizationMap[n].original)

\* C23 witness: a text with a lower-case spelling of a term was handed over
\* redacted, with an entry for the term in the reverse map.
C23_Witness ==
    /\ codec.pc = "sent"
    /\ codec.redact
    /\ Occurs(codec.text, AnonymizationMap[2].original)
    /\ ~Search(codec.text, AnonymizationMap[2].original, FALSE)
    /\ 2 \in Mapped(codec.reverse_map)

\* The frames of the two processes.
Frames == {inv, other.inv}

\* Frame f has a RunRecord of its own (it got past lines 25-31).
HasRecord(f) == f.id # 0 /\ f.metrics.by = f.id

Moved(f) == HasRecord(f) /\ f.metrics.archived # NoDest

\* C24: when two process invocations run on the same audio path at the same
\* time, under every interleaving at most one of them moves the file into
\* the processed store and at most one has status 'success' (only the one
\* that moved it); the one that did not move it ends with status 'failed',
\* in its record and in every RunRecord it persisted; and no recording is
\* lost or overwritten: every recording is in the inbox or, once, in the
\* processed store, the moved one under the name its mover recorded.
C24_OneMover ==
    /\ \A f \in Frames, g \in Frames :
          (f.id # g.id /\ Moved(f)) =>
              /\ ~Moved(g)
              /\ ~(HasRecord(g) /\ g.metrics.status = "success")
              /\ \A i \in RecordsBy(g.id) : metricsLog[i].status = "failed"
    /\ \A f \in Frames :
          /\ (HasRecord(f) /\ f.metrics.status = "success") => Moved(f)
          /\ (HasRecord(f) /\ f.pc = "done" /\ ~Moved(f)) =>
                f.metrics.status = "failed"
          /\ Moved(f) =>
                \E a \in processed :
                    /\ <<a.stem, a.suffix>> = f.metrics.archived
                    /\ a.content = f.source
    /\ \A n \in 1..fileCount :
          Cardinality({ s \in AudioStems : inbox[s] = n }) +
          Cardinality({ a \in processed : a.content = n }) = 1

\* C24 witness: both invocations ran every stage up to the archive and
\* appended a capture entry each, both chose the same destination name, one
\* moved the file and returned with a success record, the other's move failed
\* and it returned with a failed record.
C24_Witness ==
    \E f \in Frames, g \in Frames :
        /\ f.id # g.id
        /\ f.pc = "done" /\ g.pc = "done"
        /\ CapturesBy(f.id) # {} /\ CapturesBy(g.id) # {}
        /\ f.dest = g.dest /\ f.dest # NoDest
        /\ Moved(f) /\ f.metrics.status = "success"
        /\ \E i \in RecordsBy(f.id) : metricsLog[i].status = "success"
        /\ g.failedAt = "archive"
        /\ \E i \in RecordsBy(g.id) : metricsLog[i].status = "failed"

====
